---- MODULE Spec2Model ----
(***************************************************************************)
(* A model of app.py: the News API, a Flask service over one "news" table. *)
(* Every request runs in its own thread (app.run(threaded=True)), opens    *)
(* its own psycopg2 connection, and shares only the database.              *)
(*                                                                         *)
(* Strings are sequences of one-character strings, so that str.strip()     *)
(* is computed and not assumed.  JSON values are tagged records            *)
(* [t |-> "absent" | "str" | "other", v |-> <<chars>>].                    *)
(*                                                                         *)
(* The database is PostgreSQL at its default isolation level (READ         *)
(* COMMITTED): a statement sees the rows committed when it starts, an      *)
(* UPDATE or DELETE of a row waits while another open transaction holds    *)
(* an uncommitted write of that row, and closing a connection discards     *)
(* its open transaction.  A database error is raised before the failing    *)
(* statement (or commit) takes effect.  The server may start out not yet   *)
(* accepting connections (the case the retry loop is written for); once    *)
(* it accepts them it goes on doing so.                                    *)
(***************************************************************************)
EXTENDS Integers, Sequences, FiniteSets, TLC

VARIABLES
    env,      \* os.environ: the four DB_* settings
    dbReady,  \* the database server accepts connections
    store,    \* committed rows of table news: id -> [title, content]
    nextId,   \* the id sequence of the table (next value it hands out)
    th,       \* per request thread: the handler's locals and position
    served,   \* number of requests received so far
    issued,   \* history: ids handed out by INSERT ... RETURNING id, in order
    acked,    \* history: ids that a 201 response has carried
    deleted   \* history: ids whose DELETE has been committed

vars == <<env, dbReady, store, nextId, th, served, issued, acked, deleted>>

\* ------------------------------------------------------------------ bounds
MaxRequests == 2
Threads == {"t1", "t2"}

\* ------------------------------------------------------- program constants
retries == 5
delay_seconds == 5

\* ------------------------------------------------------------ JSON values
Absent == [t |-> "absent", v |-> <<>>]
Str(s) == [t |-> "str", v |-> s]
NonStr == [t |-> "other", v |-> <<>>]

EnvNames == {"DB_HOST", "DB_NAME", "DB_USER", "DB_PASS"}
EnvSet == "set"
EnvEmpty == "empty"
EnvMissing == "missing"

\* The environments explored: complete, one variable unset, one set to "".
EnvAllSet == [n \in EnvNames |-> EnvSet]
EnvHostMissing == [n \in EnvNames |-> IF n = "DB_HOST" THEN EnvMissing ELSE EnvSet]
EnvPassEmpty == [n \in EnvNames |-> IF n = "DB_PASS" THEN EnvEmpty ELSE EnvSet]

\* all([db_host, db_name, db_user, db_pass]): None and "" are both falsy.
EnvComplete == \A n \in EnvNames : env[n] = EnvSet

\* ------------------------------------------------------------- str.strip()
IsSpace(c) == c = " "

RECURSIVE lstrip(_)
lstrip(s) ==
    IF s = <<>> THEN <<>>
    ELSE IF IsSpace(Head(s)) THEN lstrip(Tail(s)) ELSE s

RECURSIVE rstrip(_)
rstrip(s) ==
    IF s = <<>> THEN <<>>
    ELSE IF IsSpace(s[Len(s)]) THEN rstrip(SubSeq(s, 1, Len(s) - 1)) ELSE s

\* .lstrip() in place of .strip().
strip_left_only(s) == lstrip(s)

strip(s) == rstrip(lstrip(s))

\* --------------------------------------------------------------- responses
NoResp ==
    [status |-> 0, tag |-> "none", msg |-> "", id |-> 0,
     title |-> <<>>, content |-> <<>>, items |-> <<>>]

ErrorBody(code, message) ==
    [NoResp EXCEPT !.status = code, !.tag = "error", !.msg = message]

\* handle_http_exception: {"error": e.description} with status e.code
handle_http_exception(e) == ErrorBody(e.code, e.desc)

ConnFailedResp == ErrorBody(500, "Database connection failed")

HealthErrorResp ==
    [NoResp EXCEPT !.status = 500, !.tag = "status_error",
                   !.msg = "Database connection failed"]

HealthOkResp ==
    [NoResp EXCEPT !.status = 200, !.tag = "status_ok",
                   !.msg = "Database connection successful"]

IndexResp ==
    [NoResp EXCEPT !.status = 200, !.tag = "index",
                   !.msg = "Welcome to the News API (with Postgres)!"]

ItemResp(code, i, t, c) ==
    [NoResp EXCEPT !.status = code, !.tag = "item", !.id = i,
                   !.title = t, !.content = c]

ListResp(rows) ==
    [NoResp EXCEPT !.status = 200, !.tag = "list", !.id = Len(rows),
                   !.items = rows]

DeletedResp(i) ==
    [NoResp EXCEPT !.status = 200, !.tag = "deleted", !.id = i]

\* str(e) of a database exception
DbErrorText == "database error"

\* ---------------------------------------------------------------- requests
\* A body: whether request.is_json, whether get_json() gives an object, and
\* the object's title and content.
NoPayload == [json |-> FALSE, object |-> FALSE, title |-> Absent, content |-> Absent]

Json(t, c) == [json |-> TRUE, object |-> TRUE, title |-> t, content |-> c]

\* The JSON body `null`: get_json() returns None.
JsonNull == [json |-> TRUE, object |-> FALSE, title |-> Absent, content |-> Absent]

\* POST bodies: not JSON; JSON null; title missing, not a string, only
\* whitespace; and two valid ones whose title needs stripping, with and
\* without content.
CreateBodies ==
    { NoPayload, JsonNull,
      Json(Absent, Str(<<"x">>)), Json(NonStr, Absent), Json(Str(<<" ">>), Absent),
      Json(Str(<<" ", "a", " ">>), Absent),
      Json(Str(<<" ", "a", " ">>), Str(<<"x">>)) }

\* PUT bodies: not JSON; JSON null; only content; only title (one of them
\* empty).
UpdateBodies ==
    { NoPayload, JsonNull,
      Json(Absent, Str(<<"y">>)), Json(Str(<<"b">>), Absent),
      Json(Str(<<>>), Absent) }

TargetIds == {1, 2}

Requests ==
    { [route |-> r, item_id |-> 0, payload |-> NoPayload] :
        r \in {"index", "db_health_check", "list_news"} }
    \cup { [route |-> "create_news", item_id |-> 0, payload |-> b] :
             b \in CreateBodies }
    \cup { [route |-> "update_news", item_id |-> i, payload |-> b] :
             i \in TargetIds, b \in UpdateBodies }
    \cup { [route |-> "delete_news", item_id |-> i, payload |-> NoPayload] :
             i \in TargetIds }

\* ------------------------------------------------------- a thread's locals
NoTxn == [op |-> "none", id |-> 0, title |-> <<>>, content |-> <<>>]
NoExc == [kind |-> "none", code |-> 0, desc |-> ""]
NoItem == [found |-> FALSE, title |-> <<>>, content |-> <<>>]

Idle ==
    [pc |-> "idle", route |-> "none", item_id |-> 0, payload |-> NoPayload,
     attempt |-> 0, sleeps |-> 0, slept |-> 0, connects |-> 0,
     acq |-> "untried", conn |-> "none", closes |-> 0,
     txn |-> NoTxn, item |-> NoItem, title |-> <<>>, content |-> <<>>,
     exc |-> NoExc, ret |-> NoResp, resp |-> NoResp,
     sqls |-> 0, commits |-> 0, rollbacks |-> 0, rbfail |-> FALSE,
     wrote |-> NoTxn]

\* Tables the service can have been left with: none created yet, or two items
\* created earlier by POST /news (ids 1 and 2, titles already stripped).
EmptyTable == << >>
TwoRows ==
    [i \in {1, 2} |->
        IF i = 1 THEN [title |-> <<"a">>, content |-> << >>]
        ELSE [title |-> <<"a">>, content |-> <<"x">>]]

RECURSIVE IdsUpTo(_)
IdsUpTo(n) == IF n = 0 THEN << >> ELSE Append(IdsUpTo(n - 1), n)

\* The starts explored: environment, server readiness, table.  The start
\* with a ready server and an empty table is the first one after
\* db_becomes_ready.
Starts ==
    { <<EnvAllSet, FALSE, EmptyTable>>, <<EnvAllSet, TRUE, TwoRows>>,
      <<EnvHostMissing, TRUE, TwoRows>>, <<EnvPassEmpty, TRUE, EmptyTable>> }

Init ==
    /\ \E s \in Starts : env = s[1] /\ dbReady = s[2] /\ store = s[3]
    /\ nextId = Cardinality(DOMAIN store) + 1
    /\ th = [p \in Threads |-> Idle]
    /\ served = 0
    /\ issued = IdsUpTo(Cardinality(DOMAIN store))
    /\ acked = DOMAIN store
    /\ deleted = {}

Set(p, l) == th' = [th EXCEPT ![p] = l]

\* --------------------------------------------------------------- dispatch
\* Flask hands an inbound request to a thread that is free: one that has
\* served nothing yet or whose last response (pc = "done") has been sent.
ReceiveFrom(p, requests) ==
    /\ th[p].pc \in {"idle", "done"}
    /\ served < MaxRequests
    /\ \E r \in requests :
         Set(p, [Idle EXCEPT !.pc = "handler", !.route = r.route,
                             !.item_id = r.item_id, !.payload = r.payload])
    /\ served' = served + 1
    /\ UNCHANGED <<env, dbReady, store, nextId, issued, acked, deleted>>

Receive(p) == ReceiveFrom(p, Requests)

\* Steps that touch only the thread's own locals.
Local(p, l) ==
    /\ Set(p, l)
    /\ UNCHANGED <<env, dbReady, store, nextId, served, issued, acked, deleted>>

\* The database server finishes starting up.
db_becomes_ready ==
    /\ ~dbReady
    /\ dbReady' = TRUE
    /\ UNCHANGED <<env, store, nextId, th, served, issued, acked, deleted>>

\* ------------------------------------------------------ get_db_connection
\* Lines 18-25: read the environment; any unset or empty value returns None
\* at once.  Otherwise the retry loop starts with attempt = 1.
get_db_connection_env(p) ==
    LET l == th[p] IN
    /\ \/ l.pc = "getconn"
       \/ l.pc = "handler" /\ l.route \in {"db_health_check", "list_news", "delete_news"}
    /\ IF EnvComplete
       THEN Local(p, [l EXCEPT !.pc = "connect", !.attempt = 1])
       ELSE Local(p, [l EXCEPT !.pc = "conn_ret", !.acq = "none"])

\* Lines 30-37: psycopg2.connect succeeds; the connection is returned.
connect_ok(p) ==
    LET l == th[p] IN
    /\ l.pc = "connect"
    /\ dbReady
    /\ Local(p, [l EXCEPT !.pc = "conn_ret", !.acq = "ok", !.conn = "open",
                          !.connects = @ + 1])

\* Sleeping after every failed attempt, the last one included.
SleepsAfterEvery(attempt) == attempt <= retries

\* Line 42: sleep only when the failed attempt was not the last one.
SleepsAfter(attempt) == attempt < retries

\* Line 29: for attempt in range(1, retries + 1).
LoopContinues(attempt) == attempt + 1 <= retries

\* Lines 38-45: psycopg2.OperationalError.  Sleep if attempts remain; when the
\* loop is exhausted None is returned.
connect_fail(p) ==
    LET l == th[p] IN
    /\ l.pc = "connect"
    /\ ~dbReady
    /\ IF SleepsAfter(l.attempt)
       THEN Local(p, [l EXCEPT !.pc = "sleep", !.connects = @ + 1])
       ELSE IF LoopContinues(l.attempt)
       THEN Local(p, [l EXCEPT !.attempt = @ + 1, !.connects = @ + 1])
       ELSE Local(p, [l EXCEPT !.pc = "conn_ret", !.acq = "none",
                               !.connects = @ + 1])

\* Line 43, then the next iteration of line 29.
sleep_delay(p) ==
    LET l == th[p]
        woke == [l EXCEPT !.sleeps = @ + 1, !.slept = @ + delay_seconds]
    IN
    /\ l.pc = "sleep"
    /\ IF LoopContinues(l.attempt)
       THEN Local(p, [woke EXCEPT !.pc = "connect", !.attempt = @ + 1])
       ELSE Local(p, [woke EXCEPT !.pc = "conn_ret", !.acq = "none"])

\* `if conn is None: return ... 500` of every handler; get_db_connection's
\* own locals go out of scope.
FirstSql(r) ==
    CASE r = "db_health_check" -> "health_close"
      [] r = "list_news" -> "select_all"
      [] r = "create_news" -> "insert"
      [] r = "update_news" -> "select_one"
      [] r = "delete_news" -> "delete"

\* A handler that does not test the connection for None.
ConnNeverNone(l) == FALSE

\* `if conn is None` of every handler.
ConnIsNone(l) == l.acq = "none"

conn_is_none(p) ==
    LET l == th[p]
        back == [l EXCEPT !.attempt = 0, !.sleeps = 0, !.slept = 0, !.connects = 0]
    IN
    /\ l.pc = "conn_ret"
    /\ IF ConnIsNone(l)
       THEN Local(p, [back EXCEPT !.pc = "done",
                        !.resp = IF l.route = "db_health_check"
                                 THEN HealthErrorResp ELSE ConnFailedResp])
       ELSE Local(p, [back EXCEPT !.pc = FirstSql(l.route)])

\* ------------------------------------------------------------ the database
\* SELECT id, title, content FROM news ORDER BY id: the committed rows in
\* ascending id order.
RECURSIVE OrderById(_)
OrderById(rows) ==
    IF DOMAIN rows = {} THEN << >>
    ELSE LET m == CHOOSE i \in DOMAIN rows : \A j \in DOMAIN rows : i <= j
             rest == [j \in DOMAIN rows \ {m} |-> rows[j]]
         IN <<[id |-> m, title |-> rows[m].title, content |-> rows[m].content]>>
            \o OrderById(rest)

\* Another open transaction holds an uncommitted UPDATE or DELETE of the row.
LockedByOther(p, i) ==
    \E q \in Threads \ {p} :
        th[q].txn.op \in {"update", "delete"} /\ th[q].txn.id = i

\* conn.commit(): the transaction's write becomes part of the table.
Committed(rows, txn) ==
    CASE txn.op = "insert" ->
           [j \in DOMAIN rows \cup {txn.id} |->
               IF j = txn.id THEN [title |-> txn.title, content |-> txn.content]
               ELSE rows[j]]
      [] txn.op = "update" ->
           [j \in DOMAIN rows |->
               IF j = txn.id THEN [title |-> txn.title, content |-> txn.content]
               ELSE rows[j]]
      [] txn.op = "delete" -> [j \in DOMAIN rows \ {txn.id} |-> rows[j]]
      [] OTHER -> rows

\* The id the table generates for the next inserted row.
NextVal == nextId

\* A database-layer exception reaches the handler's `except Exception`.
DbException == [kind |-> "db", code |-> 500, desc |-> DbErrorText]

\* An exception raised by the handler's own Python code.
PyException(name) == [kind |-> "py", code |-> 500, desc |-> name]

\* abort(code, description=...) raises an HTTPException.
abort(code, description) == [kind |-> "http", code |-> code, desc |-> description]

\* psycopg2 raises at an execute or a commit of the thread.
db_error(p) ==
    LET l == th[p] IN
    /\ l.pc \in {"select_all", "insert", "select_one", "update", "delete", "commit"}
    /\ Local(p, [l EXCEPT !.pc = "except", !.exc = DbException])

\* --------------------------------------------------------- request handlers
\* index: lines 69-82.
index(p) ==
    LET l == th[p] IN
    /\ l.pc = "handler" /\ l.route = "index"
    /\ Local(p, [l EXCEPT !.pc = "done", !.resp = IndexResp])

\* db_health_check, lines 62-66: close (errors swallowed), then 200.
db_health_check_close(p) ==
    LET l == th[p] IN
    /\ l.pc = "health_close"
    /\ Local(p, [l EXCEPT !.pc = "done", !.conn = "closed", !.closes = @ + 1,
                          !.txn = NoTxn, !.resp = HealthOkResp])

\* list_news, lines 94-97 and 104.
list_news_select(p) ==
    LET l == th[p] IN
    /\ l.pc = "select_all"
    /\ Local(p, [l EXCEPT !.pc = "finally", !.sqls = @ + 1,
                          !.ret = ListResp(OrderById(store))])

\* list_news, lines 98-100: no rollback, 500 with str(e).
list_news_except(p) ==
    LET l == th[p] IN
    /\ l.pc = "except" /\ l.route = "list_news"
    /\ Local(p, [l EXCEPT !.pc = "finally", !.ret = ErrorBody(500, l.exc.desc)])

\* create_news, line 112: the title test.
ValidTitle(v) == v.t = "str" /\ strip(v.v) # <<>>

\* payload.get(key, default)
PayloadGet(v, default) == IF v.t = "absent" THEN default ELSE v.v

\* An exception no handler catches: Flask answers 500 Internal Server Error,
\* which handle_http_exception renders like any HTTPException.
Unhandled == handle_http_exception(abort(500, "Internal Server Error"))

\* create_news, lines 109-116: validation, before any database access.
\* `"title" not in payload` raises TypeError when the body is JSON null.
create_news_validate(p) ==
    LET l == th[p] IN
    /\ l.pc = "handler" /\ l.route = "create_news"
    /\ IF ~l.payload.json
       THEN Local(p, [l EXCEPT !.pc = "done", !.resp =
                handle_http_exception(abort(400, "Request must be JSON"))])
       ELSE IF ~l.payload.object
       THEN Local(p, [l EXCEPT !.pc = "done", !.exc = PyException("TypeError"),
                               !.resp = Unhandled])
       ELSE IF ~ValidTitle(l.payload.title)
       THEN Local(p, [l EXCEPT !.pc = "done", !.resp =
                handle_http_exception(abort(400, "Missing or invalid 'title' field"))])
       ELSE Local(p, [l EXCEPT !.pc = "getconn",
                               !.title = strip(l.payload.title.v),
                               !.content = PayloadGet(l.payload.content, <<>>)])

\* create_news, lines 126-130: INSERT ... RETURNING id.  The id comes from the
\* table's sequence; the row stays uncommitted in this transaction.
create_news_insert(p) ==
    LET l == th[p] IN
    /\ l.pc = "insert"
    /\ Set(p, [l EXCEPT !.pc = "commit", !.sqls = @ + 1,
                        !.txn = [op |-> "insert", id |-> NextVal,
                                 title |-> l.title, content |-> l.content]])
    /\ nextId' = NextVal + 1
    /\ issued' = Append(issued, NextVal)
    /\ UNCHANGED <<env, dbReady, store, served, acked, deleted>>

\* The item a handler returns after its commit.
SuccessResp(l) ==
    CASE l.route = "create_news" -> ItemResp(201, l.txn.id, l.title, l.content)
      [] l.route = "update_news" -> ItemResp(200, l.item_id, l.title, l.content)
      [] l.route = "delete_news" -> DeletedResp(l.item_id)

\* conn.commit() of create_news (131), update_news (172), delete_news (202),
\* and the response item built after it.
commit(p) ==
    LET l == th[p] IN
    /\ l.pc = "commit"
    /\ store' = Committed(store, l.txn)
    /\ deleted' = IF l.txn.op = "delete" THEN deleted \cup {l.txn.id} ELSE deleted
    /\ Set(p, [l EXCEPT !.pc = "finally", !.commits = @ + 1, !.txn = NoTxn,
                        !.wrote = l.txn, !.ret = SuccessResp(l)])
    /\ UNCHANGED <<env, dbReady, nextId, served, issued, acked>>

\* update_news, lines 148-150.
update_news_validate(p) ==
    LET l == th[p] IN
    /\ l.pc = "handler" /\ l.route = "update_news"
    /\ IF ~l.payload.json
       THEN Local(p, [l EXCEPT !.pc = "done", !.resp =
                handle_http_exception(abort(400, "Request must be JSON"))])
       ELSE Local(p, [l EXCEPT !.pc = "getconn"])

\* payload.get("title", "") in place of payload.get("title", current_title).
MergedTitleBlank(payload, current_title) == PayloadGet(payload.title, << >>)

\* update_news, lines 165-166: supplied fields over the row that was read.
MergedTitle(payload, current_title) == PayloadGet(payload.title, current_title)
MergedContent(payload, current_content) == PayloadGet(payload.content, current_content)

\* update_news, lines 158-166: SELECT the row; 404 when absent, else merge.
\* payload.get raises AttributeError when the body is JSON null.
update_news_select(p) ==
    LET l == th[p] IN
    /\ l.pc = "select_one"
    /\ IF l.item_id \in DOMAIN store
       THEN LET row == store[l.item_id]
                got == [l EXCEPT !.sqls = @ + 1,
                          !.item = [found |-> TRUE, title |-> row.title,
                                    content |-> row.content]]
            IN
            IF l.payload.object
            THEN Local(p, [got EXCEPT !.pc = "update",
                             !.title = MergedTitle(l.payload, row.title),
                             !.content = MergedContent(l.payload, row.content)])
            ELSE Local(p, [got EXCEPT !.pc = "except",
                             !.exc = PyException("AttributeError")])
       ELSE Local(p, [l EXCEPT !.pc = "finally", !.sqls = @ + 1,
                        !.exc = abort(404, "Item not found")])

\* update_news, lines 168-171: UPDATE ... WHERE id.  It waits for a concurrent
\* uncommitted write of the row, then changes the row if it is still there and
\* changes nothing if it is not; the handler does not look at the row count.
update_news_update(p) ==
    LET l == th[p] IN
    /\ l.pc = "update"
    /\ ~LockedByOther(p, l.item_id)
    /\ Local(p, [l EXCEPT !.pc = "commit", !.sqls = @ + 1,
                   !.txn = IF l.item_id \in DOMAIN store
                           THEN [op |-> "update", id |-> l.item_id,
                                 title |-> l.title, content |-> l.content]
                           ELSE NoTxn])

\* delete_news, lines 198-201: DELETE ... RETURNING id; 404 when nothing came
\* back.
delete_news_delete(p) ==
    LET l == th[p] IN
    /\ l.pc = "delete"
    /\ ~LockedByOther(p, l.item_id)
    /\ IF l.item_id \in DOMAIN store
       THEN Local(p, [l EXCEPT !.pc = "commit", !.sqls = @ + 1,
                        !.txn = [op |-> "delete", id |-> l.item_id,
                                 title |-> <<>>, content |-> <<>>]])
       ELSE Local(p, [l EXCEPT !.pc = "finally", !.sqls = @ + 1,
                        !.exc = abort(404, "Item not found")])

\* `except Exception` of create_news (133-139), update_news (177-183) and
\* delete_news (205-211): conn.rollback() succeeds.
rollback_ok(p) ==
    LET l == th[p] IN
    /\ l.pc = "except" /\ l.route \in {"create_news", "update_news", "delete_news"}
    /\ Local(p, [l EXCEPT !.pc = "finally", !.rollbacks = @ + 1, !.txn = NoTxn,
                          !.ret = ErrorBody(500, l.exc.desc)])

\* conn.rollback() without its own try/except: its exception replaces the
\* handled one and Flask answers with its generic 500.
rollback_propagates(l) ==
    [l EXCEPT !.rollbacks = @ + 1, !.rbfail = TRUE,
              !.ret = ErrorBody(500, "Internal Server Error")]

\* Lines 135-139 (179-183, 207-211) when conn.rollback() itself raises:
\* `except Exception: pass`, and the 500 carries the first error.
rollback_raises(l) ==
    [l EXCEPT !.rollbacks = @ + 1, !.rbfail = TRUE,
              !.ret = ErrorBody(500, l.exc.desc)]

\* The same clauses when conn.rollback() itself raises.
rollback_fail(p) ==
    LET l == th[p] IN
    /\ l.pc = "except" /\ l.route \in {"create_news", "update_news", "delete_news"}
    /\ Local(p, [rollback_raises(l) EXCEPT !.pc = "finally"])

\* conn.close() placed after the try block instead of in `finally`: an abort
\* leaves the handler without closing.
conn_close_unless_aborted(l) ==
    IF l.exc.kind = "http" THEN l
    ELSE [l EXCEPT !.conn = "closed", !.closes = @ + 1, !.txn = NoTxn]

\* conn.close(): the connection is released and its open transaction is
\* discarded by the server.
conn_close(l) == [l EXCEPT !.conn = "closed", !.closes = @ + 1, !.txn = NoTxn]

\* Without `except HTTPException: raise` the abort lands in `except Exception`
\* and is answered 500 with its text.
OutcomeAbortCaught(l) ==
    IF l.exc.kind = "http" THEN ErrorBody(500, l.exc.desc) ELSE l.ret

\* What leaves the handler: a re-raised HTTPException goes through
\* handle_http_exception, anything else is the value returned.
Outcome(l) == IF l.exc.kind = "http" THEN handle_http_exception(l.exc) ELSE l.ret

\* `finally: conn.close()` of list_news (102), create_news (141),
\* update_news (185) and delete_news (213), then the response.
finally(p) ==
    LET l == th[p] IN
    /\ l.pc = "finally"
    /\ Set(p, [conn_close(l) EXCEPT !.pc = "done", !.resp = Outcome(l)])
    /\ acked' = IF Outcome(l).status = 201 THEN acked \cup {Outcome(l).id} ELSE acked
    /\ UNCHANGED <<env, dbReady, store, nextId, served, issued, deleted>>

ThreadStep(p) ==
        \/ Receive(p)
        \/ get_db_connection_env(p)
        \/ connect_ok(p)
        \/ connect_fail(p)
        \/ sleep_delay(p)
        \/ conn_is_none(p)
        \/ db_error(p)
        \/ index(p)
        \/ db_health_check_close(p)
        \/ list_news_select(p)
        \/ list_news_except(p)
        \/ create_news_validate(p)
        \/ create_news_insert(p)
        \/ update_news_validate(p)
        \/ update_news_select(p)
        \/ update_news_update(p)
        \/ delete_news_delete(p)
        \/ commit(p)
        \/ rollback_ok(p)
        \/ rollback_fail(p)
        \/ finally(p)

Next == db_becomes_ready \/ \E p \in Threads : ThreadStep(p)

Spec == Init /\ [][Next]_vars

\* get_db_connection on its own, called by GET /db-health.  Threads are
\* scheduled fairly, a connect call returns or raises, and a sleep ends.
HealthRequests == { r \in Requests : r.route = "db_health_check" }

AcquireStep(p) ==
        \/ ReceiveFrom(p, HealthRequests)
        \/ get_db_connection_env(p)
        \/ connect_ok(p)
        \/ connect_fail(p)
        \/ sleep_delay(p)
        \/ conn_is_none(p)
        \/ db_health_check_close(p)

AcquireNext == db_becomes_ready \/ \E p \in Threads : AcquireStep(p)

AcquireSpec ==
    Init /\ [][AcquireNext]_vars /\ \A p \in Threads : WF_vars(AcquireStep(p))

\* ===================================================================== claims
DataRoutes == {"list_news", "create_news", "update_news", "delete_news"}
Done(p) == th[p].pc = "done"

\* C1: every handler that obtained a connection has closed it exactly once
\* when its response is produced, on every exit path; no connection is closed
\* twice, and no thread that is idle or has responded holds an open one.
C1_ClosedExactlyOnce ==
    \A p \in Threads :
        LET l == th[p] IN
        /\ l.closes <= 1
        /\ l.pc \in {"idle", "done"} => l.conn # "open"
        /\ (l.pc = "done" /\ l.acq = "ok") => (l.closes = 1 /\ l.conn = "closed")
        /\ l.acq # "ok" => (l.closes = 0 /\ l.conn = "none")
        /\ l.conn = "closed" => l.pc = "done"

\* A database error whose rollback failed too, answered after one close, while
\* another request ended with a 404 abort, also after one close.
C1_Witness ==
    \E p, q \in Threads :
        /\ Done(p) /\ th[p].exc.kind = "db" /\ th[p].rbfail
        /\ th[p].closes = 1 /\ th[p].conn = "closed"
        /\ Done(q) /\ th[q].exc.kind = "http" /\ th[q].resp.status = 404
        /\ th[q].closes = 1

\* C2: with a complete environment get_db_connection makes at most 5 connect
\* calls, returns the connection at the first call that succeeds, sleeps the
\* fixed delay only between two calls (at most 4 times, never after the 5th
\* failure), returns None only after 5 failed calls, and always returns; with
\* an incomplete environment it returns None with no call and no sleep.
C2_AcquireState(l) ==
    /\ l.connects <= 5 /\ l.sleeps <= 4
    /\ l.slept = 5 * l.sleeps
    /\ l.pc \in {"connect", "sleep"} => (EnvComplete /\ l.conn = "none")
    /\ l.pc = "connect" => (l.sleeps = l.connects /\ l.connects < 5)
    /\ l.pc = "sleep" => (l.sleeps = l.connects - 1 /\ l.connects < 5)
    /\ l.conn = "open" => l.pc \notin {"connect", "sleep"}
    /\ (l.pc = "conn_ret" /\ l.acq = "ok") =>
          (l.conn = "open" /\ l.connects >= 1 /\ l.sleeps = l.connects - 1)
    /\ (l.pc = "conn_ret" /\ EnvComplete /\ l.acq # "ok") =>
          (l.acq = "none" /\ l.conn = "none" /\ l.connects = 5 /\ l.sleeps = 4)
    /\ (l.pc = "conn_ret" /\ ~EnvComplete) =>
          (l.acq = "none" /\ l.conn = "none" /\ l.connects = 0 /\ l.sleeps = 0)

C2_Returns(p) ==
    (th[p].pc \in {"connect", "sleep"}) ~> (th[p].pc = "conn_ret")

C2_BoundedRetry ==
    /\ [](\A p \in Threads : C2_AcquireState(th[p]))
    /\ \A p \in Threads : C2_Returns(p)

\* One acquisition gave up after 5 calls and 4 sleeps, another succeeded at its
\* third call after 2 sleeps.
C2_Witness ==
    \E p, q \in Threads :
        /\ th[p].pc = "conn_ret" /\ th[p].acq = "none"
        /\ th[p].connects = 5 /\ th[p].sleeps = 4 /\ th[p].slept = 20
        /\ th[q].pc = "conn_ret" /\ th[q].acq = "ok"
        /\ th[q].connects = 3 /\ th[q].sleeps = 2

\* C3: every row of the table has a non-empty title.
C3_TitleNonEmpty == \A i \in DOMAIN store : store[i].title # << >>

\* C4: a committed update of a row by a PUT with only `content` leaves the
\* row's title as the request read it and sets the content to the supplied
\* one; with only `title`, symmetrically; no other row changes and no row
\* appears or disappears.  The title read is the stored one unless another
\* write to the row was committed after the read.
C4_UpdateCommit(p) ==
    LET l == th[p]
        i == l.item_id
        b == l.payload
    IN
    (l.pc = "commit" /\ l.route = "update_news" /\ th'[p].pc = "finally") =>
        /\ DOMAIN store' = DOMAIN store
        /\ \A j \in DOMAIN store \ {i} : store'[j] = store[j]
        /\ l.txn.op = "update" =>
            /\ l.item.found /\ i \in DOMAIN store'
            /\ (b.title.t = "absent" /\ b.content.t = "str") =>
                  /\ store'[i].title = l.item.title
                  /\ store'[i].content = b.content.v
                  /\ store[i].title = l.item.title => store'[i].title = store[i].title
            /\ (b.content.t = "absent" /\ b.title.t = "str") =>
                  /\ store'[i].content = l.item.content
                  /\ store'[i].title = b.title.v
                  /\ store[i].content = l.item.content =>
                        store'[i].content = store[i].content

NeverStored(i) == i >= nextId

\* C5 as stated: with a connection, DELETE of an id that is not in the table
\* always answers 404.
C5_AlwaysNotFound ==
    \A p \in Threads :
        (Done(p) /\ th[p].route = "delete_news" /\ th[p].acq = "ok"
            /\ NeverStored(th[p].item_id))
        => th[p].resp.status = 404

\* C5 as amended: with a connection and no database error raised by the DELETE
\* statement, DELETE of an id that is not in the table answers 404 "Item not
\* found", commits nothing, rolls nothing back and writes nothing; a DELETE
\* that found no row answers the same way.
C5_NotFoundUnlessDbError ==
    \A p \in Threads :
        LET l == th[p] IN
        (Done(p) /\ l.route = "delete_news" /\ l.acq = "ok"
            /\ (l.exc.kind = "http" \/ (NeverStored(l.item_id) /\ l.exc.kind # "db")))
        => /\ l.resp.status = 404 /\ l.resp.tag = "error"
           /\ l.resp.msg = "Item not found"
           /\ l.commits = 0 /\ l.rollbacks = 0 /\ l.wrote = NoTxn
           /\ l.sqls = 1 /\ l.closes = 1

\* The same missing id deleted twice: both answers are 404 and the table is
\* as it started.
C5_Witness ==
    \E p, q \in Threads :
        /\ p # q /\ Done(p) /\ Done(q)
        /\ th[p].route = "delete_news" /\ th[q].route = "delete_news"
        /\ th[p].item_id = th[q].item_id /\ NeverStored(th[p].item_id)
        /\ th[p].resp.status = 404 /\ th[q].resp.status = 404
        /\ store = EmptyTable

\* The title of a POST body is missing, not a string, or blank.
BadTitle(v) == v.t # "str" \/ \A k \in 1..Len(v.v) : v.v[k] = " "

\* C6: a POST whose body is not JSON or whose title is missing (the body has
\* no title, or is JSON null), not a string or blank is answered 400 without
\* get_db_connection being called: no connect call, no SQL, no commit, no
\* write.
C6_RejectedBeforeDatabase ==
    \A p \in Threads :
        LET l == th[p] IN
        (l.route = "create_news" /\
            (~l.payload.json \/ ~l.payload.object \/ BadTitle(l.payload.title)))
        => /\ l.pc \in {"handler", "done"}
           /\ l.acq = "untried" /\ l.connects = 0 /\ l.conn = "none"
           /\ l.sqls = 0 /\ l.commits = 0 /\ l.wrote = NoTxn /\ l.txn = NoTxn
           /\ l.pc = "done" => (l.resp.status = 400 /\ l.resp.tag = "error")

\* C7: when get_db_connection returns None, the four /news handlers answer
\* 500 {"error": "Database connection failed"} having executed no SQL,
\* /db-health answers 500 {"status": "error", "message": "Database connection
\* failed"}, and / answers 200 without calling get_db_connection.
C7_ConnectionFailed ==
    \A p \in Threads :
        LET l == th[p] IN
        /\ (Done(p) /\ l.acq = "none" /\ l.route \in DataRoutes) =>
              /\ l.resp.status = 500 /\ l.resp.tag = "error"
              /\ l.resp.msg = "Database connection failed"
              /\ l.sqls = 0 /\ l.commits = 0 /\ l.wrote = NoTxn
        /\ (Done(p) /\ l.acq = "none" /\ l.route = "db_health_check") =>
              /\ l.resp.status = 500 /\ l.resp.tag = "status_error"
              /\ l.resp.msg = "Database connection failed"
        /\ l.acq = "none" => l.pc \in {"conn_ret", "done"}
        /\ l.route = "index" =>
              /\ l.acq = "untried" /\ l.connects = 0
              /\ l.pc \in {"handler", "done"}
              /\ l.pc = "done" => l.resp.status = 200

\* With the server not accepting connections, a PUT got the 500 and GET / its
\* 200.
C7_Witness ==
    \E p, q \in Threads :
        /\ EnvComplete /\ ~dbReady
        /\ Done(p) /\ th[p].route = "update_news" /\ th[p].acq = "none"
        /\ th[p].resp.status = 500
        /\ Done(q) /\ th[q].route = "index" /\ th[q].resp.status = 200

\* What every handler does on a database error: 500 with the error's text,
\* the connection released once, nothing of the request written.
C8_ErrorAnswer(l) ==
    /\ l.pc \in {"except", "finally", "done"}
    /\ l.commits = 0 /\ l.wrote = NoTxn
    /\ l.pc = "except" => (l.conn = "open" /\ l.rollbacks = 0)
    /\ l.pc = "finally" =>
          (l.conn = "open" /\ l.ret.status = 500 /\ l.ret.msg = "database error")
    /\ l.pc = "done" =>
          /\ l.resp.status = 500 /\ l.resp.tag = "error"
          /\ l.resp.msg = "database error"
          /\ l.closes = 1 /\ l.conn = "closed" /\ l.txn = NoTxn

Trimmed(t, s) ==
    /\ s # << >> => (s[1] # " " /\ s[Len(s)] # " ")
    /\ \E a \in 0..Len(t) :
          /\ a + Len(s) <= Len(t)
          /\ \A k \in 1..Len(s) : s[k] = t[a + k]
          /\ \A k \in 1..Len(t) : (k <= a \/ k > a + Len(s)) => t[k] = " "

Ascending(rows) ==
    \A a, b \in 1..Len(rows) : a < b => rows[a].id < rows[b].id

\* C9, states: a 201 answers exactly one committed INSERT of the stripped title
\* and the content (empty when omitted) under the id it returns; no id is
\* handed out twice, so two 201s never share one; an item answered 201 stays
\* in the table until a DELETE of it commits; a list answer is in ascending id
\* order.
C9_Created ==
    /\ \A p \in Threads :
          LET l == th[p] IN
          /\ (Done(p) /\ l.route = "create_news" /\ l.resp.status = 201) =>
                /\ l.commits = 1 /\ l.sqls = 1 /\ l.wrote.op = "insert"
                /\ l.resp.tag = "item" /\ l.resp.id = l.wrote.id
                /\ l.resp.title = l.wrote.title /\ l.resp.content = l.wrote.content
                /\ Trimmed(l.payload.title.v, l.resp.title)
                /\ l.resp.content =
                      (IF l.payload.content.t = "absent" THEN << >>
                       ELSE l.payload.content.v)
                /\ \A q \in Threads \ {p} :
                      (Done(q) /\ th[q].resp.status = 201) =>
                          th[q].resp.id # l.resp.id
          /\ (l.route = "list_news" /\ l.ret.status = 200) => Ascending(l.ret.items)
    /\ \A a, b \in 1..Len(issued) : a # b => issued[a] # issued[b]
    /\ acked \ deleted \subseteq DOMAIN store

\* C9, steps: the commit of a create adds exactly the row the 201 will carry,
\* under an id the table did not hold; the SELECT of a list returns every item
\* answered 201 and not deleted.
C9_Steps(p) ==
    LET l == th[p] IN
    /\ (l.pc = "commit" /\ l.route = "create_news" /\ th'[p].pc = "finally") =>
          /\ l.txn.id \notin DOMAIN store
          /\ DOMAIN store' = DOMAIN store \cup {l.txn.id}
          /\ \A j \in DOMAIN store : store'[j] = store[j]
          /\ store'[l.txn.id] =
                [title |-> th'[p].ret.title, content |-> th'[p].ret.content]
          /\ th'[p].ret.id = l.txn.id /\ th'[p].ret.status = 201
    /\ (l.pc = "select_all" /\ th'[p].pc = "finally") =>
          /\ \A i \in acked \ deleted :
                \E k \in 1..Len(th'[p].ret.items) :
                    /\ th'[p].ret.items[k].id = i
                    /\ th'[p].ret.items[k].title = store[i].title
                    /\ th'[p].ret.items[k].content = store[i].content
          /\ th'[p].ret.id = Len(th'[p].ret.items)

C9_CreateThenList ==
    [] C9_Created /\ [][\A p \in Threads : C9_Steps(p)]_vars

\* Two POSTs were answered 201 with different ids.
C9_Witness ==
    \E p, q \in Threads :
        /\ p # q /\ Done(p) /\ Done(q)
        /\ th[p].resp.status = 201 /\ th[q].resp.status = 201
        /\ th[p].resp.id # th[q].resp.id
        /\ th[p].resp.title = <<"a">> /\ th[p].resp.content = << >>
        /\ th[p].resp.id \in DOMAIN store /\ th[q].resp.id \in DOMAIN store

\* C10: a PUT answered 200 has written the item it answers with.
C10_AnsweredIsWritten ==
    \A p \in Threads :
        LET l == th[p] IN
        (Done(p) /\ l.route = "update_news" /\ l.resp.status = 200) =>
            /\ l.wrote.op = "update" /\ l.wrote.id = l.resp.id
            /\ l.wrote.title = l.resp.title /\ l.wrote.content = l.resp.content

====
